---- MODULE Spec2Model ----
(***************************************************************************)
(* Shopify ingestion of the Xeno dashboard: the three historical-sync      *)
(* variants (sequential upsert, createMany, paginated batch upsert), the   *)
(* paginated fetcher and the retry wrapper, as state machines.             *)
(*                                                                         *)
(* The store (Prisma on PostgreSQL) is modelled at its interface: a table  *)
(* is a set of rows, every Prisma call is one atomic step on it, and an    *)
(* await is a point where the steps of other runs may interleave.          *)
(***************************************************************************)
EXTENDS Integers, Sequences, FiniteSets, TLC

VARIABLES
    customers,   \* the Customer table: a set of rows
    orders,      \* the Order table: a set of rows
    deployed,    \* the sync variant the deployed route runs
    params,      \* the upstream catalogue and the batchUpsert parameters
    runs,        \* per run slot, the position of one syncHistoricalData call
    starts,      \* number of sync runs started so far
    faults,      \* number of failed external calls (HTTP or store) so far
    appliedC,    \* history: per Customer key, the applications completed
    appliedO,    \* history: per Order key, the applications completed
    http,        \* the response to the last request that dispatched no run
    fetcher,     \* one fetchAllFromShopify call and the upstream it walks
    retry        \* one withRetry call and the operation it wraps

vars == <<customers, orders, deployed, params, runs, starts, faults,
          appliedC, appliedO, http, fetcher, retry>>

\* The variables the sync actions leave alone.
others == <<deployed, params, http, fetcher, retry>>

----------------------------------------------------------------------------
(* Bounds of the model. *)

MaxCustomers == 3    \* external customer identifiers 1..MaxCustomers
MaxOrders == 2       \* external order identifiers 1..MaxOrders
MaxStarts == 2       \* sync runs started in one behaviour
MaxFaults == 1       \* failed external calls in one behaviour
MaxPages == 3        \* pages of a collection walked by one fetchAllFromShopify
MaxPerPage == 2      \* records on one page
MaxRetries == 3      \* the retries argument of one withRetry call

Null == "null"                 \* null where a scalar may stand
NullObject == [null |-> TRUE]  \* null where an object may stand

Stores == {"s1", "s2"}
RunSlots == {1, 2}
Variants == {"route", "createMany", "paginated"}

CustomerIds == 1..MaxCustomers
OrderIds == 1..MaxOrders
\* The revisions of an upstream record: as first served, and as revised.
Versions == {1, 2}

----------------------------------------------------------------------------
(* Values and conversions. *)

\* Number.prototype.toString and String(n) are ToString of the TLC module.

\* parseFloat of the price strings the upstream serves, in hundredths.
ParseFloat(s) ==
    CASE s = "10.00" -> 1000
      [] s = "25.50" -> 2550
      [] s = "7.25" -> 725
      [] s = "0" -> 0
      [] OTHER -> "NaN"

\* new Date(iso): the instant an ISO string names.
NewDate(iso) == "Date(" \o iso \o ")"

Pick(seq, v) == seq[((v - 1) % Len(seq)) + 1]

\* The customer the upstream embeds in order o: odd orders belong to a
\* customer, even orders are guest orders.
OrderCustomer(o) == IF o % 2 = 1 THEN [id |-> (o + 1) \div 2] ELSE NullObject

\* Revision v of the upstream's customer c and order o.
ShopifyCustomer(c, v) ==
    [id |-> c,
     email |-> Pick(<<"a@x.io", "b@x.io", "c@x.io">>, v),
     first_name |-> Pick(<<"Ann", "Anne", "Anna">>, v),
     last_name |-> Pick(<<"Lee", "Li", "Leigh">>, v)]

ShopifyOrder(o, v) ==
    [id |-> o,
     name |-> Pick(<<"#1001", "#1001-A", "#1001-B">>, v),
     total_price |-> Pick(<<"10.00", "25.50", "7.25">>, v),
     currency |-> Pick(<<"USD", "EUR", "INR">>, v),
     financial_status |-> Pick(<<"pending", "paid", "refunded">>, v),
     fulfillment_status |-> Pick(<<Null, "fulfilled", "partial">>, v),
     processed_at |-> Pick(<<Null, "2024-07-01T00:00:00Z", "2024-07-02T00:00:00Z">>, v),
     customer |-> OrderCustomer(o)]

\* The elements of a set of numbers in increasing order.
RECURSIVE Ascending(_)
Ascending(S) ==
    IF S = {} THEN <<>>
    ELSE LET m == CHOOSE x \in S : \A y \in S : x <= y
         IN <<m>> \o Ascending(S \ {m})

\* What the upstream may hold for a store when a request reaches it: the
\* customers its collection lists, and the revision of its records; one
\* fixed data set where the parameters name it.
Upstreams ==
    IF "upstream" \in DOMAIN params THEN {params.upstream}
    ELSE [listed : SUBSET params.customerIds, ver : Versions]

\* The collections the upstream serves for a store in state up.
CustomersOf(up) ==
    LET ids == Ascending(up.listed)
    IN [i \in 1..Len(ids) |-> ShopifyCustomer(ids[i], up.ver)]

OrdersOf(up) ==
    LET ids == Ascending(params.orderIds)
    IN [i \in 1..Len(ids) |-> ShopifyOrder(ids[i], up.ver)]

----------------------------------------------------------------------------
(* The store at its interface. *)

\* @default(cuid()): a local identifier no row of the table carries. Rows
\* are never deleted, so the payload's key and the number of rows already
\* stored under that key name every insertion differently.
Cuid(rows, create) ==
    create.storeId \o "/" \o create.shopifyId \o "#"
    \o ToString(Cardinality({row \in rows : /\ row.storeId = create.storeId
                                             /\ row.shopifyId = create.shopifyId}))

Matches(row, where) == \A f \in DOMAIN where : row[f] = where[f]

\* A lookup that never finds a row.
FindUniqueNone(rows, where) == NullObject

\* prisma.<model>.findUnique({ where }): the matching row, or null.
FindUnique(rows, where) ==
    IF \E row \in rows : Matches(row, where)
    THEN CHOOSE row \in rows : Matches(row, where)
    ELSE NullObject

\* An upsert that mirrors: it also removes the store's rows that do not
\* match.
UpsertMirror(rows, where, update, create) ==
    LET kept == {row \in rows : row.storeId # create.storeId \/ Matches(row, where)}
    IN IF \E row \in kept : Matches(row, where)
       THEN {IF Matches(row, where) THEN update @@ row ELSE row : row \in kept}
       ELSE kept \cup {[id |-> Cuid(rows, create)] @@ create}

\* An upsert that does not look for the matching row and always inserts.
UpsertBlind(rows, where, update, create) ==
    rows \cup {[id |-> Cuid(rows, create)] @@ create}

\* prisma.<model>.upsert({ where, update, create }): the matching row takes
\* the update's fields and keeps the others; without a match the create
\* payload is inserted under a fresh local identifier.
Upsert(rows, where, update, create) ==
    IF \E row \in rows : Matches(row, where)
    THEN {IF Matches(row, where) THEN update @@ row ELSE row : row \in rows}
    ELSE rows \cup {[id |-> Cuid(rows, create)] @@ create}

\* The composite-unique key of the Customer and Order tables.
UniqueKey(row) == [shopifyId |-> row.shopifyId, storeId |-> row.storeId]

\* A createMany that inserts every payload, stored key or not.
RECURSIVE CreateManyNoSkip(_, _)
CreateManyNoSkip(rows, data) ==
    IF data = <<>> THEN rows
    ELSE CreateManyNoSkip(rows \cup {[id |-> Cuid(rows, Head(data))] @@ Head(data)},
                          Tail(data))

\* A createMany that overwrites the rows whose key is stored.
RECURSIVE CreateManyOverwrite(_, _)
CreateManyOverwrite(rows, data) ==
    IF data = <<>> THEN rows
    ELSE CreateManyOverwrite(Upsert(rows, UniqueKey(Head(data)), Head(data), Head(data)),
                             Tail(data))

\* prisma.<model>.createMany({ data, skipDuplicates: true }): every payload
\* whose unique key is not stored yet is inserted, the others are skipped.
RECURSIVE CreateMany(_, _)
CreateMany(rows, data) ==
    IF data = <<>> THEN rows
    ELSE IF \E row \in rows : Matches(row, UniqueKey(Head(data)))
         THEN CreateMany(rows, Tail(data))
         ELSE CreateMany(rows \cup {[id |-> Cuid(rows, Head(data))] @@ Head(data)},
                         Tail(data))

----------------------------------------------------------------------------
(* The transforms of the sync variants. *)

\* A Customer key that names the external identifier alone.
CustomerWhereAnyStore(customerData, storeId) ==
    [shopifyId |-> ToString(customerData.id)]

CustomerWhere(customerData, storeId) ==
    [shopifyId |-> ToString(customerData.id), storeId |-> storeId]

CustomerUpdate(customerData) ==
    [email |-> customerData.email,
     firstName |-> customerData.first_name,
     lastName |-> customerData.last_name]

CustomerCreate(customerData, storeId) ==
    [shopifyId |-> ToString(customerData.id),
     email |-> customerData.email,
     firstName |-> customerData.first_name,
     lastName |-> customerData.last_name,
     storeId |-> storeId]

OrderWhere(orderData, storeId) ==
    [shopifyId |-> ToString(orderData.id), storeId |-> storeId]

\* A customer lookup by external identifier alone.
OrderCustomerWhereAnyStore(orderData, storeId) ==
    [shopifyId |-> ToString(orderData.customer.id)]

\* The order's customer as the upsert variants resolve it: the Customer of
\* this store with the embedded external identifier.
OrderCustomerWhere(orderData, storeId) ==
    [shopifyId |-> ToString(orderData.customer.id), storeId |-> storeId]

\* An update payload that also renames and re-prices in the order's currency.
OrderUpdateAll(orderData) ==
    [financialStatus |-> orderData.financial_status,
     fulfillmentStatus |-> orderData.fulfillment_status,
     totalPrice |-> ParseFloat(orderData.total_price),
     orderNumber |-> orderData.name,
     currency |-> orderData.currency]

OrderUpdate(orderData) ==
    [financialStatus |-> orderData.financial_status,
     fulfillmentStatus |-> orderData.fulfillment_status,
     totalPrice |-> ParseFloat(orderData.total_price)]

\* customer is what findUnique returned: customer?.id ?? null.
OrderCreate(orderData, storeId, customer) ==
    [shopifyId |-> ToString(orderData.id),
     orderNumber |-> orderData.name,
     totalPrice |-> ParseFloat(orderData.total_price),
     currency |-> orderData.currency,
     financialStatus |-> orderData.financial_status,
     fulfillmentStatus |-> orderData.fulfillment_status,
     processedAt |-> IF orderData.processed_at # Null
                     THEN NewDate(orderData.processed_at) ELSE Null,
     storeId |-> storeId,
     customerId |-> IF customer = NullObject THEN Null ELSE customer.id]

\* customerIdMap of the createMany variant: shopifyId -> id over the
\* store's Customers; Map.get of a missing key is undefined, stored as null.
CustomerIdMap(rows, storeId) ==
    {<<c.shopifyId, c.id>> : c \in {x \in rows : x.storeId = storeId}}

MapGet(map, key) ==
    IF \E p \in map : p[1] = key
    THEN (CHOOSE p \in map : p[1] = key)[2]
    ELSE Null

CreateManyCustomerData(cs, storeId) ==
    [i \in 1..Len(cs) |-> CustomerCreate(cs[i], storeId)]

\* totalPrice is handed over as String(o.total_price || '0') and stored in
\* the numeric column as the number that string names.
CreateManyOrderData(os, storeId, map) ==
    [i \in 1..Len(os) |->
        [shopifyId |-> ToString(os[i].id),
         orderNumber |-> os[i].name,
         totalPrice |-> ParseFloat(IF os[i].total_price = Null THEN "0"
                                   ELSE os[i].total_price),
         currency |-> IF os[i].currency = Null THEN "USD" ELSE os[i].currency,
         financialStatus |-> os[i].financial_status,
         fulfillmentStatus |-> os[i].fulfillment_status,
         processedAt |-> IF os[i].processed_at # Null
                         THEN NewDate(os[i].processed_at) ELSE Null,
         storeId |-> storeId,
         customerId |-> IF os[i].customer # NullObject
                        THEN MapGet(map, ToString(os[i].customer.id))
                        ELSE Null]]

----------------------------------------------------------------------------
(* The upstream API and fetchAllFromShopify. *)

SeqTake(s, n) == SubSeq(s, 1, IF n < Len(s) THEN n ELSE Len(s))
SeqDrop(s, n) == SubSeq(s, (IF n < Len(s) THEN n ELSE Len(s)) + 1, Len(s))
Range(s) == {s[i] : i \in DOMAIN s}

\* The URL of page i of a collection (page 1 is the collection's own URL).
PageUrl(i) == "page_info=" \o ToString(i)

\* The Link header of page i of k: Shopify names the previous page first,
\* then the next one; a single page carries no Link header (no entries).
LinkHeader(i, k) ==
    (IF i > 1 THEN <<[url |-> PageUrl(i - 1), rel |-> "previous"]>> ELSE <<>>)
    \o (IF i < k THEN <<[url |-> PageUrl(i + 1), rel |-> "next"]>> ELSE <<>>)

\* An upstream serving the given pages (each a sequence of records); the
\* request for page failAt, if any, gets a non-success response.
Server(pages, failAt) ==
    [u \in {PageUrl(i) : i \in 1..Len(pages)} |->
        LET i == CHOOSE j \in 1..Len(pages) : PageUrl(j) = u
        IN [ok |-> i # failAt,
            data |-> pages[i],
            link |-> LinkHeader(i, Len(pages))]]

\* records cut into pages of at most limit records; an empty collection is
\* one empty page.
RECURSIVE Paginate(_, _)
Paginate(records, limit) ==
    IF Len(records) <= limit THEN <<records>>
    ELSE <<SeqTake(records, limit)>> \o Paginate(SeqDrop(records, limit), limit)

\* A pattern that never matches the Link header.
NextLinkNone(linkHeader) == Null

\* linkHeader?.match(/<([^>]+)>;\s*rel="next"/): the URL of the first
\* entry whose rel is "next", or null.
RECURSIVE NextLink(_)
NextLink(linkHeader) ==
    IF linkHeader = <<>> THEN Null
    ELSE IF Head(linkHeader).rel = "next" THEN Head(linkHeader).url
    ELSE NextLink(Tail(linkHeader))

FetchAllStart(url) ==
    [results |-> <<>>, nextUrl |-> url, requests |-> <<>>, pc |-> "loop"]

\* A loop body that keeps the last page instead of concatenating.
FetchAllStepOverwrite(server, f) ==
    LET res == server[f.nextUrl]
        nxt == NextLink(res.link)
    IN IF ~res.ok
       THEN [f EXCEPT !.requests = Append(@, f.nextUrl), !.pc = "thrown"]
       ELSE [results |-> res.data,
             nextUrl |-> nxt,
             requests |-> Append(f.requests, f.nextUrl),
             pc |-> IF nxt # Null THEN "loop" ELSE "returned"]

\* One iteration of the while loop of fetchAllFromShopify.
FetchAllStep(server, f) ==
    LET res == server[f.nextUrl]
        nxt == NextLink(res.link)
    IN IF ~res.ok
       THEN [f EXCEPT !.requests = Append(@, f.nextUrl), !.pc = "thrown"]
       ELSE [results |-> f.results \o res.data,
             nextUrl |-> nxt,
             requests |-> Append(f.requests, f.nextUrl),
             pc |-> IF nxt # Null THEN "loop" ELSE "returned"]

\* The whole call: the loop run to its end.
RECURSIVE FetchAllRun(_, _)
FetchAllRun(server, f) ==
    IF f.pc = "loop" THEN FetchAllRun(server, FetchAllStep(server, f)) ELSE f

FetchAllFromShopify(server, url) == FetchAllRun(server, FetchAllStart(url))

----------------------------------------------------------------------------
(* History of completed applications, kept for the properties only. *)

CustomerKeys ==
    {[shopifyId |-> ToString(c), storeId |-> s] : c \in CustomerIds, s \in Stores}

OrderKeys ==
    {[shopifyId |-> ToString(o), storeId |-> s] : o \in OrderIds, s \in Stores}

\* The Customer of the store that carries the order's embedded external
\* identifier in the table rows, as a local identifier or Null.
StoredCustomerOf(rows, orderData, storeId) ==
    IF orderData.customer = NullObject THEN Null
    ELSE LET found == {c \in rows : /\ c.shopifyId = ToString(orderData.customer.id)
                                    /\ c.storeId = storeId}
         IN IF found = {} THEN Null ELSE (CHOOSE c \in found : TRUE).id

RECURSIVE NoteCustomers(_, _)
NoteCustomers(h, datas) ==
    IF datas = <<>> THEN h
    ELSE NoteCustomers(
            [h EXCEPT ![UniqueKey(Head(datas))] = [applied |-> TRUE, data |-> Head(datas)]],
            Tail(datas))

\* items: the raw orders applied, in order; rows: the Customer table at the
\* time of the write.
RECURSIVE NoteOrders(_, _, _, _)
NoteOrders(h, items, storeId, rows) ==
    IF items = <<>> THEN h
    ELSE NoteOrders(
            [h EXCEPT ![OrderWhere(Head(items), storeId)] =
                [applied |-> TRUE,
                 orderData |-> Head(items),
                 linked |-> StoredCustomerOf(rows, Head(items), storeId),
                 same |-> ~@.applied \/ (@.same /\ @.orderData = Head(items))]],
            Tail(items), storeId, rows)

----------------------------------------------------------------------------
(* Sync runs: what the three variants share. *)

RouteLimit == 250        \* limit=250 of the sequential and paginated variants
CreateManyLimit == 100   \* limit=100 of the createMany variant
BatchSize == 100
Concurrency == 10

\* batchSize and concurrency of a batchUpsert call scaled down.
ScaledBatch == {1, 2}

NoBatch == [rest |-> <<>>, queue |-> <<>>, inflight |-> {}]

IdleRun ==
    [st |-> "idle", store |-> Null, variant |-> Null, pc |-> "idle",
     cBatch |-> NoBatch, oBatch |-> NoBatch, customerIdMap |-> {},
     request |-> NullObject, reply |-> NullObject, failure |-> NullObject]

\* The call of the order upsert function for one item, before its first
\* await: an order with a customer first looks the customer up.
OrderTask(orderData) ==
    [orderData |-> orderData,
     stage |-> IF orderData.customer # NullObject THEN "findUnique" ELSE "upsert",
     customer |-> NullObject]

\* A limiter that invokes every task it is handed at once.
BatchBeginUnlimited(items, batchSize, concurrency) ==
    [rest |-> SeqDrop(items, batchSize),
     queue |-> <<>>,
     inflight |-> Range(SeqTake(items, batchSize))]

\* A chunk of batchSize items is handed to the limiter, which invokes the
\* first concurrency of them and queues the others.
BatchBegin(items, batchSize, concurrency) ==
    LET chunk == SeqTake(items, batchSize)
    IN [rest |-> SeqDrop(items, batchSize),
        queue |-> SeqDrop(chunk, concurrency),
        inflight |-> Range(SeqTake(chunk, concurrency))]

\* A task settles: the limiter invokes the head of its queue.
BatchSettle(b, task) ==
    [rest |-> b.rest,
     queue |-> IF b.queue = <<>> THEN <<>> ELSE Tail(b.queue),
     inflight |-> (b.inflight \ {task})
                  \cup (IF b.queue = <<>> THEN {} ELSE {Head(b.queue)})]

\* A chunk taken as resolved as soon as the limiter's queue has drained.
ChunkDoneEarly(b) == b.queue = <<>>

\* Promise.all of the chunk resolves: every task of it has settled.
ChunkDone(b) == b.inflight = {} /\ b.queue = <<>>

\* A for ... of loop with an await in its body is a batch of one chunk with
\* one task at a time.
LoopBegin(items) == BatchBegin(items, Len(items), 1)

OrderTasks(os) == [i \in 1..Len(os) |-> OrderTask(os[i])]

\* An external call (HTTP request or store call) fails only while the fault
\* budget lasts.
Outcomes == IF faults < MaxFaults THEN {TRUE, FALSE} ELSE {TRUE}

\* The response to the one request of a collection with ?limit=limit.
HttpGet(records, limit, ok) ==
    Server(Paginate(records, limit), IF ok THEN 0 ELSE 1)[PageUrl(1)]

WriteCustomer(storeId, customerData) ==
    /\ customers' = Upsert(customers, CustomerWhere(customerData, storeId),
                           CustomerUpdate(customerData),
                           CustomerCreate(customerData, storeId))
    /\ appliedC' = NoteCustomers(appliedC, <<CustomerCreate(customerData, storeId)>>)
    /\ UNCHANGED <<orders, appliedO>>

WriteOrder(storeId, task) ==
    /\ orders' = Upsert(orders, OrderWhere(task.orderData, storeId),
                        OrderUpdate(task.orderData),
                        OrderCreate(task.orderData, storeId, task.customer))
    /\ appliedO' = NoteOrders(appliedO, <<task.orderData>>, storeId, customers)
    /\ UNCHANGED <<customers, appliedC>>

NoWrite == UNCHANGED <<customers, orders, appliedC, appliedO>>

\* A POST handler that awaits the run whatever the wait flag says.
DetachedNever(variant, req) == FALSE

\* The handler dispatches the run without awaiting it: always in the
\* createMany variant, elsewhere unless the request carries wait=true.
Detached(variant, req) == variant = "createMany" \/ ~req.wait

\* An external call made directly, as every call of syncHistoricalData is:
\* invoked once, with no delay, its rejection the caller's at once.
DirectCall(error) == [error |-> error, calls |-> 1, delays |-> <<>>]

\* A non-success response of the upstream, as the variants throw it, and a
\* store call rejected with a pool timeout.
FetchError(variant) ==
    [kind |-> "fetch",
     message |-> IF variant = "createMany"
                 THEN "Failed to fetch customers from Shopify: <response body>"
                 ELSE "<response body>",
     call |-> DirectCall("Response")]

\* The rejection of fetchCustomers or fetchOrders of the createMany
\* variant; Promise.all rejects with the one that is first to reject.
FetchErrorOf(what) ==
    [kind |-> "fetch",
     message |-> "Failed to fetch " \o what \o " from Shopify: <response body>",
     call |-> DirectCall("Response")]

\* The fetches of Promise.all([fetchCustomers, fetchOrders]) that rejected.
Rejected(okCustomers, okOrders) ==
    {"customers" : x \in {okCustomers} \ {TRUE}}
       \cup {"orders" : x \in {okOrders} \ {TRUE}}

StoreError ==
    [kind |-> "store",
     message |-> "Timed out fetching a new connection from the connection pool",
     call |-> DirectCall("P2024")]

\* The first failed external call of the run, kept for the properties.
Note(run, ok, cause) ==
    IF ok \/ run.failure # NullObject THEN run ELSE [run EXCEPT !.failure = cause]

\* The call returns, or throws: its locals are gone, the tasks it left in a
\* limiter are not. A handler that awaits the call answers now.
Completed(run) ==
    [run EXCEPT !.st = "completed", !.pc = "done", !.customerIdMap = {},
                !.reply = IF Detached(run.variant, run.request) THEN @
                          ELSE [status |-> 200, body |-> "Sync completed"]]

Failed(run) ==
    [run EXCEPT !.st = "failed", !.pc = "done", !.customerIdMap = {},
                !.cBatch.queue = IF run.variant = "paginated" THEN @ ELSE <<>>,
                !.oBatch.queue = IF run.variant = "paginated" THEN @ ELSE <<>>,
                !.reply = IF Detached(run.variant, run.request) THEN @
                          ELSE [status |-> 500, body |-> run.failure.message]]

SetRun(r, run) == runs' = [runs EXCEPT ![r] = run]

Fault(ok) == faults' = IF ok THEN faults ELSE faults + 1

\* A sync run of the deployed variant is dispatched for store s, in the
\* lowest slot that holds no run in progress and no task of an earlier one.
Free(run) ==
    /\ run.st # "running"
    /\ run.cBatch.inflight = {} /\ run.oBatch.inflight = {}

\* A dispatch that turns the request away while a run of the same store is
\* in progress.
StartRunExclusive(r, s, req) ==
    /\ \A q \in RunSlots : ~(runs[q].st = "running" /\ runs[q].store = s)
    /\ Free(runs[r])
    /\ \A q \in RunSlots : q < r => ~Free(runs[q])
    /\ starts < MaxStarts
    /\ starts' = starts + 1
    /\ SetRun(r, [IdleRun EXCEPT !.st = "running", !.store = s, !.variant = deployed,
                                 !.pc = IF deployed = "createMany" THEN "fetch"
                                        ELSE "fetchCustomers",
                                 !.request = req,
                                 !.reply = IF Detached(deployed, req)
                                           THEN [status |-> 202, body |-> "Sync started"]
                                           ELSE NullObject])
    /\ NoWrite
    /\ UNCHANGED <<faults, others>>

StartRun(r, s, req) ==
    /\ Free(runs[r])
    /\ \A q \in RunSlots : q < r => ~Free(runs[q])
    /\ starts < MaxStarts
    /\ starts' = starts + 1
    /\ SetRun(r, [IdleRun EXCEPT !.st = "running", !.store = s, !.variant = deployed,
                                 !.pc = IF deployed = "createMany" THEN "fetch"
                                        ELSE "fetchCustomers",
                                 !.request = req,
                                 !.reply = IF Detached(deployed, req)
                                           THEN [status |-> 202, body |-> "Sync started"]
                                           ELSE NullObject])
    /\ NoWrite
    /\ UNCHANGED <<faults, others>>

----------------------------------------------------------------------------
(* The POST handlers. *)

Users == {"u1", "u2", "u3"}

\* The Store table: u1 owns s1, u2 owns s2, u3 owns no store.
StoreTable == {[id |-> "s1", userId |-> "u1"], [id |-> "s2", userId |-> "u2"]}

\* A request: the authenticated user or null, the storeId parameter or
\* null ("s9" names no store), and whether wait=true was passed.
Requests == [user : Users \cup {Null}, storeId : Stores \cup {Null, "s9"}, wait : BOOLEAN]

\* The requests of the stores' owners for their own store, wait not set.
OwnerRequests ==
    {[user |-> st.userId, storeId |-> st.id, wait |-> FALSE] : st \in StoreTable}

OwnedBy(user) == {st \in params.stores : st.userId = user}
WithId(id) == {st \in params.stores : st.id = id}

Reject(status, body) == [status |-> status, body |-> body, stores |-> {}]
Accept(found) == [status |-> 0, body |-> "", stores |-> {st.id : st \in found}]

\* The handlers up to the dispatch: the response that ends the request, or
\* the stores the run may be dispatched for (findFirst names no order).
ResolveRoute(req) ==
    IF req.user = Null THEN Reject(401, "Not authenticated")
    ELSE IF req.storeId # Null
    THEN IF WithId(req.storeId) = {}
         THEN Reject(404, "Store not found for provided storeId.")
         ELSE IF \E st \in WithId(req.storeId) : st.userId # req.user
         THEN Reject(403, "You do not have access to this store.")
         ELSE Accept(WithId(req.storeId))
    ELSE IF OwnedBy(req.user) # {} THEN Accept(OwnedBy(req.user))
    ELSE IF params.stores # {} THEN Accept(params.stores)
    ELSE Reject(404, "No store connected and no stores found.")

ResolveCreateMany(req) ==
    IF req.user = Null THEN Reject(401, "Unauthorized")
    ELSE IF req.storeId = Null THEN Reject(400, "storeId is a required parameter")
    ELSE IF WithId(req.storeId) \cap OwnedBy(req.user) = {}
    THEN Reject(404, "Store not found or access denied")
    ELSE Accept(WithId(req.storeId) \cap OwnedBy(req.user))

ResolvePaginated(req) ==
    IF req.user = Null THEN Reject(401, "Not authenticated")
    ELSE IF req.storeId # Null
    THEN IF WithId(req.storeId) = {} THEN Reject(404, "Store not found")
         ELSE IF \E st \in WithId(req.storeId) : st.userId # req.user
         THEN Reject(403, "You do not have access to this store.")
         ELSE Accept(WithId(req.storeId))
    ELSE IF OwnedBy(req.user) # {} THEN Accept(OwnedBy(req.user))
    ELSE Reject(404, "No store connected.")

Resolve(variant, req) ==
    CASE variant = "route" -> ResolveRoute(req)
      [] variant = "createMany" -> ResolveCreateMany(req)
      [] OTHER -> ResolvePaginated(req)

\* One POST request to the deployed handler, the store being reachable: it
\* is answered at once, or a run is dispatched.
Post(r, req) ==
    LET res == Resolve(deployed, req) IN
    /\ req \in params.requests
    /\ starts < MaxStarts
    /\ IF res.stores = {}
       THEN /\ r = 1
            /\ http' = [request |-> req, status |-> res.status, body |-> res.body]
            /\ starts' = starts + 1
            /\ NoWrite
            /\ UNCHANGED <<runs, faults, deployed, params, fetcher, retry>>
       ELSE \E s \in res.stores : StartRun(r, s, req)

----------------------------------------------------------------------------
(* The sequential variant (api/sync/route.ts). *)

RouteFetchCustomers(r) ==
    LET run == runs[r] IN
    /\ run.variant = "route" /\ run.pc = "fetchCustomers"
    /\ \E ok \in Outcomes, up \in Upstreams :
          LET res == HttpGet(CustomersOf(up), RouteLimit, ok) IN
          /\ Fault(ok)
          /\ SetRun(r, IF res.ok /\ res.data # <<>>
                       THEN [run EXCEPT !.pc = "customers",
                                        !.cBatch = LoopBegin(res.data)]
                       ELSE Note([run EXCEPT !.pc = "fetchOrders"], res.ok, FetchError(run.variant)))
    /\ NoWrite
    /\ UNCHANGED <<starts, others>>

\* One iteration of the customer loop; a failed upsert is caught and logged.
RouteUpsertCustomer(r) ==
    LET run == runs[r] IN
    /\ run.variant = "route" /\ run.pc = "customers"
    /\ \E task \in run.cBatch.inflight, ok \in Outcomes :
          LET b == BatchSettle(run.cBatch, task) IN
          /\ Fault(ok)
          /\ IF ok THEN WriteCustomer(run.store, task) ELSE NoWrite
          /\ SetRun(r, Note([run EXCEPT !.cBatch = b,
                                        !.pc = IF ChunkDone(b) THEN "fetchOrders" ELSE @],
                            ok, StoreError))
    /\ UNCHANGED <<starts, others>>

RouteFetchOrders(r) ==
    LET run == runs[r] IN
    /\ run.variant = "route" /\ run.pc = "fetchOrders"
    /\ \E ok \in Outcomes, up \in Upstreams :
       \E res \in {HttpGet(OrdersOf(up), RouteLimit, ok)} :
          /\ Fault(ok)
          /\ SetRun(r, IF res.ok /\ res.data # <<>>
                       THEN [run EXCEPT !.pc = "orders",
                                        !.oBatch = LoopBegin(OrderTasks(res.data))]
                       ELSE Completed(Note(run, res.ok, FetchError(run.variant))))
    /\ NoWrite
    /\ UNCHANGED <<starts, others>>

\* The customer lookup of one order; a failure is caught with the order.
RouteFindCustomer(r) ==
    LET run == runs[r] IN
    /\ run.variant = "route" /\ run.pc = "orders"
    /\ \E task \in run.oBatch.inflight, ok \in Outcomes :
          LET found == [task EXCEPT
                           !.stage = "upsert",
                           !.customer = FindUnique(customers,
                                OrderCustomerWhere(task.orderData, run.store))]
              b == BatchSettle(run.oBatch, task)
          IN /\ task.stage = "findUnique"
             /\ Fault(ok)
             /\ SetRun(r, IF ok
                          THEN [run EXCEPT !.oBatch.inflight = (@ \ {task}) \cup {found}]
                          ELSE IF ChunkDone(b)
                          THEN Completed(Note([run EXCEPT !.oBatch = b], ok, StoreError))
                          ELSE Note([run EXCEPT !.oBatch = b], ok, StoreError))
    /\ NoWrite
    /\ UNCHANGED <<starts, others>>

RouteUpsertOrder(r) ==
    LET run == runs[r] IN
    /\ run.variant = "route" /\ run.pc = "orders"
    /\ \E task \in run.oBatch.inflight, ok \in Outcomes :
          LET b == BatchSettle(run.oBatch, task) IN
          /\ task.stage = "upsert"
          /\ Fault(ok)
          /\ IF ok THEN WriteOrder(run.store, task) ELSE NoWrite
          /\ SetRun(r, IF ChunkDone(b)
                       THEN Completed(Note([run EXCEPT !.oBatch = b], ok, StoreError))
                       ELSE Note([run EXCEPT !.oBatch = b], ok, StoreError))
    /\ UNCHANGED <<starts, others>>

----------------------------------------------------------------------------
(* The createMany variant (insert-only). *)

\* Promise.all([fetchCustomers(store), fetchOrders(store)]).
CmFetch(r) ==
    LET run == runs[r] IN
    /\ run.variant = "createMany" /\ run.pc = "fetch"
    /\ \E okC \in Outcomes, okO \in Outcomes, up \in Upstreams :
          LET cs == HttpGet(CustomersOf(up), CreateManyLimit, okC)
              os == HttpGet(OrdersOf(up), CreateManyLimit, okO)
          IN /\ Fault(okC /\ okO)
             /\ IF cs.ok /\ os.ok
                THEN SetRun(r, [run EXCEPT !.cBatch.queue = cs.data,
                                           !.oBatch.queue = os.data,
                                           !.pc = IF cs.data # <<>>
                                                  THEN "createCustomers"
                                                  ELSE "findMany"])
                ELSE \E what \in Rejected(cs.ok, os.ok) :
                        SetRun(r, Failed(Note(run, FALSE, FetchErrorOf(what))))
    /\ NoWrite
    /\ UNCHANGED <<starts, others>>

CmCreateCustomers(r) ==
    LET run == runs[r]
        data == CreateManyCustomerData(run.cBatch.queue, run.store)
        res == CreateMany(customers, data)
    IN
    /\ run.variant = "createMany" /\ run.pc = "createCustomers"
    /\ \E ok \in Outcomes :
          /\ Fault(ok)
          /\ IF ok
             THEN /\ customers' = res
                  /\ appliedC' = NoteCustomers(appliedC, data)
                  /\ UNCHANGED <<orders, appliedO>>
                  /\ SetRun(r, [run EXCEPT !.cBatch = NoBatch, !.pc = "findMany"])
             ELSE /\ NoWrite
                  /\ SetRun(r, Failed(Note(run, FALSE, StoreError)))
    /\ UNCHANGED <<starts, others>>

\* findMany over the store's Customers builds customerIdMap.
CmFindCustomers(r) ==
    LET run == runs[r] IN
    /\ run.variant = "createMany" /\ run.pc = "findMany"
    /\ \E ok \in Outcomes :
          /\ Fault(ok)
          /\ SetRun(r, IF ~ok THEN Failed(Note(run, FALSE, StoreError))
                       ELSE IF run.oBatch.queue # <<>>
                            THEN [run EXCEPT
                                     !.pc = "createOrders",
                                     !.customerIdMap = CustomerIdMap(customers, run.store)]
                            ELSE Completed(run))
    /\ NoWrite
    /\ UNCHANGED <<starts, others>>

CmCreateOrders(r) ==
    LET run == runs[r]
        data == CreateManyOrderData(run.oBatch.queue, run.store, run.customerIdMap)
        res == CreateMany(orders, data)
    IN
    /\ run.variant = "createMany" /\ run.pc = "createOrders"
    /\ \E ok \in Outcomes :
          /\ Fault(ok)
          /\ IF ok
             THEN /\ orders' = res
                  /\ appliedO' = NoteOrders(appliedO, run.oBatch.queue, run.store, customers)
                  /\ UNCHANGED <<customers, appliedC>>
                  /\ SetRun(r, Completed([run EXCEPT !.oBatch = NoBatch]))
             ELSE /\ NoWrite
                  /\ SetRun(r, Failed(Note(run, FALSE, StoreError)))
    /\ UNCHANGED <<starts, others>>

----------------------------------------------------------------------------
(* The paginated variant (fetchAllFromShopify, batchUpsert with p-limit). *)

\* A batchUpsert that hands the next chunk over as soon as a task settles.
AfterSettleEager(run, field, b, ok, next) ==
    IF run.st # "running" THEN [run EXCEPT ![field] = b]
    ELSE IF ~ok THEN Failed(Note([run EXCEPT ![field] = [b EXCEPT !.rest = <<>>]],
                                 FALSE, StoreError))
    ELSE IF b.rest # <<>>
         THEN [run EXCEPT ![field] =
                  LET n == BatchBegin(b.rest, params.batchSize, params.concurrency)
                  IN [n EXCEPT !.inflight = @ \cup b.inflight, !.queue = b.queue \o @]]
    ELSE IF ~ChunkDone(b) THEN [run EXCEPT ![field] = b]
    ELSE IF next = "done" THEN Completed([run EXCEPT ![field] = b])
    ELSE [run EXCEPT ![field] = b, !.pc = next]

\* A batchUpsert whose failure leaves the later chunks with the limiter.
AfterSettleAllQueued(run, field, b, ok, next) ==
    IF run.st # "running" THEN [run EXCEPT ![field] = b]
    ELSE IF ~ok THEN Failed(Note([run EXCEPT ![field] =
                                     [b EXCEPT !.rest = <<>>, !.queue = @ \o b.rest]],
                                 FALSE, StoreError))
    ELSE IF ~ChunkDone(b) THEN [run EXCEPT ![field] = b]
    ELSE IF b.rest # <<>>
         THEN [run EXCEPT ![field] = BatchBegin(b.rest, params.batchSize, params.concurrency)]
    ELSE IF next = "done" THEN Completed([run EXCEPT ![field] = b])
    ELSE [run EXCEPT ![field] = b, !.pc = next]

\* The run after one task of a batchUpsert chunk settled, leaving batch b:
\* the first rejection rejects Promise.all and with it the run, while the
\* limiter goes on with the chunk's queue; the chunk resolved, the next
\* chunk begins, or batchUpsert returns and the run moves to pc next.
AfterSettle(run, field, b, ok, next) ==
    IF run.st # "running" THEN [run EXCEPT ![field] = b]
    ELSE IF ~ok THEN Failed(Note([run EXCEPT ![field] = [b EXCEPT !.rest = <<>>]],
                                 FALSE, StoreError))
    ELSE IF ~ChunkDone(b) THEN [run EXCEPT ![field] = b]
    ELSE IF b.rest # <<>>
         THEN [run EXCEPT ![field] = BatchBegin(b.rest, params.batchSize, params.concurrency)]
    ELSE IF next = "done" THEN Completed([run EXCEPT ![field] = b])
    ELSE [run EXCEPT ![field] = b, !.pc = next]

PagFetchCustomers(r) ==
    LET run == runs[r] IN
    /\ run.variant = "paginated" /\ run.pc = "fetchCustomers"
    /\ \E ok \in Outcomes, up \in Upstreams :
          LET f == FetchAllFromShopify(
                      Server(Paginate(CustomersOf(up), RouteLimit),
                             IF ok THEN 0 ELSE 1),
                      PageUrl(1))
          IN /\ Fault(ok)
             /\ SetRun(r, IF f.pc = "thrown" THEN Failed(Note(run, FALSE, FetchError(run.variant)))
                          ELSE IF f.results = <<>> THEN [run EXCEPT !.pc = "fetchOrders"]
                          ELSE [run EXCEPT
                                   !.pc = "customers",
                                   !.cBatch = BatchBegin(f.results, params.batchSize, params.concurrency)])
    /\ NoWrite
    /\ UNCHANGED <<starts, others>>

\* A customer upsert of the batch settles; tasks left in the limiter after
\* the run has failed settle the same way.
PagUpsertCustomer(r) ==
    LET run == runs[r] IN
    /\ run.variant = "paginated"
    /\ \E task \in run.cBatch.inflight, ok \in Outcomes :
          /\ Fault(ok)
          /\ IF ok THEN WriteCustomer(run.store, task) ELSE NoWrite
          /\ SetRun(r, AfterSettle(run, "cBatch", BatchSettle(run.cBatch, task),
                                   ok, "fetchOrders"))
    /\ UNCHANGED <<starts, others>>

PagFetchOrders(r) ==
    LET run == runs[r] IN
    /\ run.variant = "paginated" /\ run.pc = "fetchOrders"
    /\ \E ok \in Outcomes, up \in Upstreams :
       \E f \in {FetchAllFromShopify(
                      Server(Paginate(OrdersOf(up), RouteLimit),
                             IF ok THEN 0 ELSE 1),
                      PageUrl(1))} :
             /\ Fault(ok)
             /\ SetRun(r, IF f.pc = "thrown" THEN Failed(Note(run, FALSE, FetchError(run.variant)))
                          ELSE IF f.results = <<>> THEN Completed(run)
                          ELSE [run EXCEPT
                                   !.pc = "orders",
                                   !.oBatch = BatchBegin(OrderTasks(f.results),
                                                         params.batchSize,
                                                         params.concurrency)])
    /\ NoWrite
    /\ UNCHANGED <<starts, others>>

PagFindCustomer(r) ==
    LET run == runs[r] IN
    /\ run.variant = "paginated"
    /\ \E task \in run.oBatch.inflight, ok \in Outcomes :
          LET found == [task EXCEPT
                           !.stage = "upsert",
                           !.customer = FindUnique(customers,
                                OrderCustomerWhere(task.orderData, run.store))]
          IN /\ task.stage = "findUnique"
             /\ Fault(ok)
             /\ SetRun(r, IF ok
                          THEN [run EXCEPT !.oBatch.inflight = (@ \ {task}) \cup {found}]
                          ELSE AfterSettle(run, "oBatch", BatchSettle(run.oBatch, task),
                                           ok, "done"))
    /\ NoWrite
    /\ UNCHANGED <<starts, others>>

PagUpsertOrder(r) ==
    LET run == runs[r] IN
    /\ run.variant = "paginated"
    /\ \E task \in run.oBatch.inflight, ok \in Outcomes :
          /\ task.stage = "upsert"
          /\ Fault(ok)
          /\ IF ok THEN WriteOrder(run.store, task) ELSE NoWrite
          /\ SetRun(r, AfterSettle(run, "oBatch", BatchSettle(run.oBatch, task),
                                   ok, "done"))
    /\ UNCHANGED <<starts, others>>

----------------------------------------------------------------------------
(* The sync specification. *)

\* The stores start empty and no run has been dispatched.
InitSync ==
    /\ customers = {}
    /\ orders = {}
    /\ runs = [r \in RunSlots |-> IdleRun]
    /\ faults = 0
    /\ appliedC = [k \in CustomerKeys |-> [applied |-> FALSE, data |-> NullObject]]
    /\ appliedO = [k \in OrderKeys |->
                      [applied |-> FALSE, orderData |-> NullObject,
                       linked |-> Null, same |-> TRUE]]

\* Runs of all stores interleaved, over a catalogue of one customer and two
\* orders, batchUpsert called with its default parameters.
Init ==
    /\ InitSync
    /\ deployed \in Variants
    /\ starts = 0
    /\ params = [customerIds |-> {1}, orderIds |-> {1, 2},
                 batchSize |-> BatchSize, concurrency |-> Concurrency,
                 stores |-> StoreTable, requests |-> OwnerRequests]
    /\ http = NullObject
    /\ fetcher = NullObject
    /\ retry = NullObject

\* One run over the whole catalogue, batchUpsert's parameters scaled down to
\* the catalogue's size.
InitOneRun ==
    /\ InitSync
    /\ deployed \in Variants
    /\ starts = MaxStarts - 1
    /\ params \in [customerIds : {CustomerIds}, orderIds : {OrderIds},
                    batchSize : ScaledBatch, concurrency : ScaledBatch,
                    stores : {StoreTable, {}}, requests : {Requests}]
    /\ http = NullObject
    /\ fetcher = NullObject
    /\ retry = NullObject

Next ==
    \/ \E r \in RunSlots, req \in Requests : Post(r, req)
    \/ \E r \in RunSlots : RouteFetchCustomers(r)
    \/ \E r \in RunSlots : RouteUpsertCustomer(r)
    \/ \E r \in RunSlots : RouteFetchOrders(r)
    \/ \E r \in RunSlots : RouteFindCustomer(r)
    \/ \E r \in RunSlots : RouteUpsertOrder(r)
    \/ \E r \in RunSlots : CmFetch(r)
    \/ \E r \in RunSlots : CmCreateCustomers(r)
    \/ \E r \in RunSlots : CmFindCustomers(r)
    \/ \E r \in RunSlots : CmCreateOrders(r)
    \/ \E r \in RunSlots : PagFetchCustomers(r)
    \/ \E r \in RunSlots : PagUpsertCustomer(r)
    \/ \E r \in RunSlots : PagFetchOrders(r)
    \/ \E r \in RunSlots : PagFindCustomer(r)
    \/ \E r \in RunSlots : PagUpsertOrder(r)

Spec == Init /\ [][Next]_vars

SpecOneRun == InitOneRun /\ [][Next]_vars

----------------------------------------------------------------------------
(* One fetchAllFromShopify call against an upstream of several pages. *)

\* Record j of page p.
PageRecord(p, j) == [page |-> p, index |-> j]

\* The upstreams: up to MaxPages pages of up to MaxPerPage records each,
\* one request of which may get a non-success response.
PageSets ==
    UNION {[1..k -> 0..MaxPerPage] : k \in 1..MaxPages}

PagesOf(sizes) ==
    [p \in DOMAIN sizes |-> [j \in 1..sizes[p] |-> PageRecord(p, j)]]

InitFetch ==
    /\ InitSync
    /\ deployed = "paginated"
    /\ starts = 0
    /\ params = [customerIds |-> {1}, orderIds |-> {1, 2},
                 batchSize |-> BatchSize, concurrency |-> Concurrency,
                 stores |-> StoreTable, requests |-> OwnerRequests]
    /\ http = NullObject
    /\ retry = NullObject
    /\ \E sizes \in PageSets, failAt \in 0..MaxPages :
          /\ failAt <= Len(sizes)
          /\ fetcher = [sizes |-> sizes, failAt |-> failAt,
                        server |-> Server(PagesOf(sizes), failAt),
                        f |-> FetchAllStart(PageUrl(1))]

\* The response to the pending request arrives and the loop body runs.
FetchPage ==
    /\ fetcher.f.pc = "loop"
    /\ fetcher' = [fetcher EXCEPT !.f = FetchAllStep(fetcher.server, fetcher.f)]
    /\ UNCHANGED <<customers, orders, deployed, params, runs, starts, faults,
                   appliedC, appliedO, http, retry>>

NextFetch == FetchPage

\* Every request is answered, so the loop is never suspended forever.
SpecFetch == InitFetch /\ [][NextFetch]_vars /\ WF_vars(FetchPage)

----------------------------------------------------------------------------
(* One withRetry call around a scripted operation. *)

\* What an invocation of the wrapped operation may do: resolve, or reject
\* with one of these errors.
ErrorKinds == {"pool", "P2024", "unique", "string"}
Kinds == {"ok"} \cup ErrorKinds

\* The fragments of the text message.includes is asked about, per error.
ErrorText(kind) ==
    CASE kind = "pool" ->
            <<"Timed out fetching a new connection", " from the ", "connection pool">>
      [] kind = "P2024" -> <<"Invalid prisma.store.findFirst invocation: ", "P2024">>
      [] kind = "unique" -> <<"Unique constraint failed on the fields: shopifyId, storeId">>
      [] OTHER -> <<"socket hang up">>

\* The value the i-th invocation rejects with: an Error, or a bare string.
ErrorOf(kind, i) ==
    [name |-> IF kind = "string" THEN "string" ELSE "PrismaClientKnownRequestError",
     message |-> ErrorText(kind),
     invocation |-> i]

Includes(message, needle) == needle \in Range(message)

\* A classification that takes every failure for a pool timeout.
IsPoolTimeoutAny(message) == TRUE

IsPoolTimeout(message) ==
    \/ Includes(message, "connection pool")
    \/ Includes(message, "P2024")
    \/ Includes(message, "Timed out fetching a new connection")

RECURSIVE Pow(_, _)
Pow(b, e) == IF e = 0 THEN 1 ELSE b * Pow(b, e - 1)

\* A linear back-off.
DelayLinear(baseDelayMs, attempt) == baseDelayMs * attempt

\* baseDelayMs * Math.pow(2, attempt - 1)
Delay(baseDelayMs, attempt) == baseDelayMs * Pow(2, attempt - 1)

\* A retry budget one attempt short.
GiveUpOneEarly(attempt, retries, isPoolTimeout) ==
    attempt >= retries \/ ~isPoolTimeout

\* attempt > retries || !isPoolTimeout
GiveUp(attempt, retries, isPoolTimeout) ==
    attempt > retries \/ ~isPoolTimeout

InitRetry ==
    /\ InitSync
    /\ deployed = "createMany"
    /\ starts = 0
    /\ params = [customerIds |-> {1}, orderIds |-> {1, 2},
                 batchSize |-> BatchSize, concurrency |-> Concurrency,
                 stores |-> StoreTable, requests |-> OwnerRequests]
    /\ http = NullObject
    /\ fetcher = NullObject
    /\ \E retries \in 0..MaxRetries, baseDelayMs \in {200, 50} :
       \E script \in [1..(retries + 1) -> Kinds] :
          retry = [script |-> script, label |-> "store.findFirst",
                   retries |-> retries, baseDelayMs |-> baseDelayMs,
                   attempt |-> 0, calls |-> 0, delays |-> <<>>,
                   pc |-> "call", result |-> NullObject, thrown |-> NullObject]

\* fn() is invoked and settles: the try block returns its value, or the
\* catch block counts the attempt and rethrows or schedules the delay.
RetryCall ==
    LET i == retry.calls + 1
        kind == retry.script[i]
        err == ErrorOf(kind, i)
        attempt == retry.attempt + 1
    IN
    /\ retry.pc = "call"
    /\ retry' =
          IF kind = "ok"
          THEN [retry EXCEPT !.calls = i, !.pc = "returned",
                             !.result = [value |-> "ok", invocation |-> i]]
          ELSE IF GiveUp(attempt, retry.retries, IsPoolTimeout(err.message))
          THEN [retry EXCEPT !.calls = i, !.attempt = attempt,
                             !.pc = "thrown", !.thrown = err]
          ELSE [retry EXCEPT !.calls = i, !.attempt = attempt, !.pc = "sleep",
                             !.delays = Append(@, Delay(retry.baseDelayMs, attempt))]
    /\ UNCHANGED <<customers, orders, deployed, params, runs, starts, faults,
                   appliedC, appliedO, http, fetcher>>

\* The timer of the delay fires and the loop comes round.
RetryWake ==
    /\ retry.pc = "sleep"
    /\ retry' = [retry EXCEPT !.pc = "call"]
    /\ UNCHANGED <<customers, orders, deployed, params, runs, starts, faults,
                   appliedC, appliedO, http, fetcher>>

NextRetry == RetryCall \/ RetryWake

SpecRetry == InitRetry /\ [][NextRetry]_vars

----------------------------------------------------------------------------
(* Properties of the sync runs. *)

RowsOf(rows, key) == {row \in rows : Matches(row, key)}

\* The fields of an Order row that the raw record alone determines.
OrderRawFields ==
    {"shopifyId", "orderNumber", "totalPrice", "currency", "financialStatus",
     "fulfillmentStatus", "processedAt", "storeId"}

Agree(row, payload, fields) == \A f \in fields : row[f] = payload[f]

\* C1: a Customer or Order record applied to a store, once or several times
\* and with possibly changed values, leaves exactly one row under its
\* (external identifier, store) key, every field of which has the value of
\* the record applied last.
UpsertIdempotent ==
    /\ \A k \in CustomerKeys :
          appliedC[k].applied =>
             /\ Cardinality(RowsOf(customers, k)) = 1
             /\ \A row \in RowsOf(customers, k) :
                   Agree(row, appliedC[k].data, DOMAIN appliedC[k].data)
    /\ \A k \in OrderKeys :
          appliedO[k].applied =>
             /\ Cardinality(RowsOf(orders, k)) = 1
             /\ \A row \in RowsOf(orders, k) :
                   Agree(row, OrderCreate(appliedO[k].orderData, k.storeId, NullObject),
                         OrderRawFields)

\* C2: no two Customer rows and no two Order rows share the same
\* (external identifier, store) pair, however the runs interleave.
KeyUnique ==
    /\ \A a, b \in customers : UniqueKey(a) = UniqueKey(b) => a = b
    /\ \A a, b \in orders : UniqueKey(a) = UniqueKey(b) => a = b

\* Two runs for the same store are both writing orders, and rows of that
\* store are stored already.
KeyUniqueWitness ==
    /\ runs[1].st = "running" /\ runs[2].st = "running"
    /\ runs[1].store = runs[2].store
    /\ runs[1].pc = "orders" /\ runs[2].pc = "orders"
    /\ \E c \in customers : c.storeId = runs[1].store
    /\ \E o \in orders : o.storeId = runs[1].store

\* C3: every Order with a customer reference refers to a Customer row of
\* the Order's own store, and what a run resolves an order's customer to
\* (the looked-up row, the entries of customerIdMap) is of the run's store.
CustomerOfSameStore ==
    /\ \A o \in orders :
          o.customerId # Null =>
             \E c \in customers : c.id = o.customerId /\ c.storeId = o.storeId
    /\ \A r \in RunSlots :
          /\ \A task \in runs[r].oBatch.inflight :
                task.customer # NullObject => task.customer.storeId = runs[r].store
          /\ \A p \in runs[r].customerIdMap :
                \E c \in customers : c.id = p[2] /\ c.storeId = runs[r].store

\* Both stores hold a customer with the same external identifier, and an
\* order of each store refers to a customer.
CustomerOfSameStoreWitness ==
    /\ \E a, b \in customers : a.shopifyId = b.shopifyId /\ a.storeId # b.storeId
    /\ \A s \in Stores : \E o \in orders : o.storeId = s /\ o.customerId # Null

\* The run has started on its orders: an order-customer lookup or an order
\* write of it is under way or due.
OrdersStarted(run) ==
    \/ run.pc \in {"orders", "findMany", "createOrders"}
    \/ run.oBatch.inflight # {}

\* A customer write of the run is still to come or in flight.
CustomersOutstanding(run) ==
    \/ run.pc \in {"fetchCustomers", "fetch", "customers", "createCustomers"}
    \/ run.cBatch # NoBatch

\* C4: within one run, every customer write has settled before the first
\* order-customer lookup or order write is started.
CustomersBeforeOrders ==
    \A r \in RunSlots : OrdersStarted(runs[r]) => ~CustomersOutstanding(runs[r])

\* A run that wrote the whole catalogue of customers is on its orders.
CustomersBeforeOrdersWitness ==
    \E r \in RunSlots :
       /\ OrdersStarted(runs[r])
       /\ Cardinality(RowsOf(customers, [storeId |-> runs[r].store])) = MaxCustomers
       /\ MaxCustomers > 1

\* C5: the customer reference of an Order a run wrote is the local
\* identifier of the store's Customer with the embedded external
\* identifier, if one was stored when the Order was written, and null
\* otherwise.
LinkingCorrect ==
    \A k \in OrderKeys :
       appliedO[k].applied =>
          \A row \in RowsOf(orders, k) : row.customerId = appliedO[k].linked

\* C6: an Order record applied after its Customer was stored leaves the row
\* that writing it for the first time then would leave, whether or not the
\* same record had been written before, when the Customer was not stored.
ArrivalOrderImmaterial ==
    \A k \in OrderKeys :
       (appliedO[k].applied /\ appliedO[k].same /\ appliedO[k].linked # Null) =>
          \A row \in RowsOf(orders, k) :
             LET fresh == OrderCreate(appliedO[k].orderData, k.storeId,
                                      [id |-> appliedO[k].linked])
             IN Agree(row, fresh, DOMAIN fresh)

----------------------------------------------------------------------------
(* Properties of fetchAllFromShopify. *)

RECURSIVE Flatten(_)
Flatten(pages) ==
    IF pages = <<>> THEN <<>> ELSE Head(pages) \o Flatten(Tail(pages))

\* The URLs a response's Link header names as the next page.
NextUrls(res) == {e.url : e \in {x \in Range(res.link) : x.rel = "next"}}

\* C7: against k pages with a next-link on pages 1..k-1 only and every
\* request answered with success, the call returns the records of all pages
\* in page order (k*m of them when every page holds m), after exactly k
\* requests, each one after the first to the URL the previous response's
\* next-link named; and it does not throw.
PaginationComplete ==
    LET f == fetcher.f
        k == Len(fetcher.sizes)
    IN (fetcher.failAt = 0 /\ f.pc # "loop") =>
          /\ f.pc = "returned"
          /\ f.results = Flatten(PagesOf(fetcher.sizes))
          /\ \A m \in 0..MaxPerPage :
                (\A p \in 1..k : fetcher.sizes[p] = m) => Len(f.results) = k * m
          /\ Len(f.requests) = k
          /\ f.requests[1] = PageUrl(1)
          /\ \A i \in 2..k :
                NextUrls(fetcher.server[f.requests[i - 1]]) = {f.requests[i]}

\* The call has returned from the largest upstream of full pages.
PaginationCompleteWitness ==
    /\ fetcher.f.pc = "returned"
    /\ Len(fetcher.sizes) = MaxPages
    /\ \A p \in 1..MaxPages : fetcher.sizes[p] = MaxPerPage
    /\ Len(fetcher.f.results) = MaxPages * MaxPerPage

\* The loop is over exactly when the last response was a non-success or
\* named no next page, wherever in the collection that is.
StopsAtLastLink ==
    LET f == fetcher.f
        n == Len(f.requests)
    IN n > 0 =>
          LET last == fetcher.server[f.requests[n]] IN
          /\ f.pc = "thrown" <=> ~last.ok
          /\ f.pc = "returned" <=> (last.ok /\ NextUrls(last) = {})
          /\ f.pc = "loop" <=> (last.ok /\ NextUrls(last) # {})
          /\ f.pc = "returned" => f.requests[n] = PageUrl(Len(fetcher.sizes))

\* C8: the page loop of fetchAllFromShopify ends, and it ends exactly at
\* the first response that is a non-success or carries no next-link: no
\* count of pages or of records stops it earlier or keeps it going.
FetchTerminates ==
    /\ <>(fetcher.f.pc # "loop")
    /\ [](StopsAtLastLink)

\* The loop has ended by a response without next-link after several pages
\* that carried one.
FetchTerminatesWitness ==
    /\ fetcher.f.pc = "returned"
    /\ Len(fetcher.f.requests) = MaxPages
    /\ MaxPages > 2
    /\ fetcher.failAt = 0

----------------------------------------------------------------------------
(* Properties of withRetry. *)

\* The errors of the pool-timeout class (Prisma's P2024).
TransientKinds == {"pool", "P2024"}

Ended == retry.pc \in {"returned", "thrown"}

\* C9: an operation that fails with a transient error exactly retries
\* times and then succeeds: withRetry returns its result after exactly
\* retries + 1 invocations and exactly retries delays, the n-th of
\* baseDelayMs * 2^(n-1).
RetrySucceeds ==
    LET n == retry.retries IN
    (/\ Ended
     /\ \A i \in 1..n : retry.script[i] \in TransientKinds
     /\ retry.script[n + 1] = "ok") =>
        /\ retry.pc = "returned"
        /\ retry.result = [value |-> "ok", invocation |-> n + 1]
        /\ retry.calls = n + 1
        /\ retry.delays = [i \in 1..n |-> retry.baseDelayMs * Pow(2, i - 1)]

\* The call has returned after the largest number of retries.
RetrySucceedsWitness ==
    /\ retry.pc = "returned"
    /\ retry.retries = MaxRetries
    /\ retry.calls = MaxRetries + 1
    /\ Len(retry.delays) = MaxRetries

Markers == {"connection pool", "P2024", "Timed out fetching a new connection"}

Marked(kind) == kind # "ok" /\ Range(ErrorText(kind)) \cap Markers # {}

\* The first invocation that fails with a message carrying none of the
\* markers, every invocation before it having failed with a marked one;
\* 0 if the script has no such invocation.
FirstPermanent ==
    LET S == {i \in DOMAIN retry.script :
                 /\ retry.script[i] # "ok" /\ ~Marked(retry.script[i])
                 /\ \A j \in 1..(i - 1) : Marked(retry.script[j])}
    IN IF S = {} THEN 0 ELSE CHOOSE i \in S : TRUE

\* C11: a failure whose message carries none of the three markers is
\* rethrown at its first occurrence, at whatever attempt it occurs: no
\* delay follows it and the operation is not invoked again.
PermanentNotRetried ==
    LET i == FirstPermanent IN
    (i > 0 /\ retry.calls >= i) =>
        /\ retry.pc = "thrown"
        /\ retry.thrown = ErrorOf(retry.script[i], i)
        /\ retry.calls = i
        /\ Len(retry.delays) = i - 1

\* A permanent failure was rethrown at a later attempt, after retries of
\* transient ones.
PermanentNotRetriedWitness ==
    /\ retry.pc = "thrown"
    /\ retry.thrown.message = ErrorText("unique")
    /\ retry.calls > 1
    /\ retry.calls <= retry.retries

----------------------------------------------------------------------------
(* Properties of batchUpsert. *)

BatchFields == {"cBatch", "oBatch"}

\* The upsertFn invocations of a batchUpsert call that have started and not
\* settled.
Outstanding(b) == b.inflight

\* C12: in a batchUpsert call with concurrency limit c, at most c
\* invocations of upsertFn are outstanding at any instant, whatever the
\* number of items, the batch size and the order in which they settle.
ConcurrencyBound ==
    \A r \in RunSlots, field \in BatchFields :
       runs[r].variant = "paginated" =>
          Cardinality(Outstanding(runs[r][field])) <= params.concurrency

\* The limit binds: as many invocations as the limit allows are outstanding
\* while further items of the chunk wait in the limiter.
ConcurrencyBoundWitness ==
    \E r \in RunSlots, field \in BatchFields :
       /\ runs[r].variant = "paginated"
       /\ Cardinality(Outstanding(runs[r][field])) = params.concurrency
       /\ runs[r][field].queue # <<>>

\* C13: batchUpsert takes the items in consecutive chunks of batchSize, and
\* an invocation for the next chunk starts only when every invocation of
\* the chunk before it has settled, by success or by failure.
ChunkSequenced ==
    [][\A r \in RunSlots, field \in BatchFields :
          LET b == runs[r][field]
              n == runs'[r][field]
          IN (runs[r].variant = "paginated" /\ runs'[r].variant = "paginated"
              /\ n.inflight \cap Range(b.rest) # {}) =>
                /\ b.queue = <<>>
                /\ Cardinality(b.inflight) = 1
                /\ n.inflight \cap b.inflight = {}
                /\ n.inflight \cup Range(n.queue)
                      = Range(SeqTake(b.rest, params.batchSize))
                /\ n.rest = SeqDrop(b.rest, params.batchSize)]_vars

\* A later chunk of several items is under way after an earlier chunk of
\* several items was written.
ChunkSequencedWitness ==
    \E r \in RunSlots :
       /\ runs[r].variant = "paginated"
       /\ params.batchSize > 1
       /\ runs[r].cBatch.inflight # {}
       /\ Cardinality(RowsOf(customers, [storeId |-> runs[r].store])) >= params.batchSize

----------------------------------------------------------------------------
(* Properties of failure handling in the sync runs. *)

\* The records of a batch that are still to be applied.
PendingOf(b) == Range(b.rest) \cup Range(b.queue) \cup b.inflight

\* The positions of a run at which records are being written.
UpsertPhases == {"customers", "orders", "createCustomers", "createOrders"}

\* C14: when the upsert of one record fails during a run, every other
\* record of the collection is still applied: the failed call takes no
\* record but its own out of what the run has still to apply, in the
\* Customer batch and the Order batch of every variant alike.
FailureIsolated ==
    [][\A r \in RunSlots :
          LET run == runs[r]
              after == runs'[r]
              field == IF run.pc \in {"customers", "createCustomers"}
                       THEN "cBatch" ELSE "oBatch"
          IN (/\ run.st = "running" /\ run.pc \in UpsertPhases
              /\ faults' > faults /\ after # run) =>
                Cardinality(PendingOf(run[field]) \ PendingOf(after[field])) <= 1]_vars

\* C19: once the Customer fetch or the Order fetch of a run was answered
\* with a non-success, the run has ended in failure and nothing of it is
\* left to fetch or to write.
FetchFailureAborts ==
    \A r \in RunSlots :
       (runs[r].failure # NullObject /\ runs[r].failure.kind = "fetch") =>
          /\ runs[r].st = "failed"
          /\ runs[r].pc = "done"
          /\ PendingOf(runs[r].cBatch) = {} /\ PendingOf(runs[r].oBatch) = {}

\* withRetry's default number of retries.
DefaultRetries == 3

\* C20: a store call of a run that failed with a transient error surfaced
\* to the run only after the retrying executor had invoked it
\* DefaultRetries + 1 times, with DefaultRetries delays between.
WritesRetried ==
    \A r \in RunSlots :
       (runs[r].failure # NullObject /\ runs[r].failure.kind = "store") =>
          /\ Marked(runs[r].failure.call.error)
          /\ runs[r].failure.call.calls = DefaultRetries + 1
          /\ Len(runs[r].failure.call.delays) = DefaultRetries

----------------------------------------------------------------------------
(* Properties of the POST handlers. *)

Owns(user, storeId) ==
    \E st \in params.stores : st.id = storeId /\ st.userId = user

Dispatched(run) == run.request # NullObject

\* C15: a run exists for a store only on a request of the store's owner.
OnlyOwnerDispatches ==
    \A r \in RunSlots :
       Dispatched(runs[r]) => Owns(runs[r].request.user, runs[r].store)

\* C16: each request gets the one status its case calls for: 401 without
\* authentication, 404 when no store can be resolved, 403 for a selected
\* store of another owner, 202 when the run is not awaited, 200 when it is
\* awaited and has ended; 202 and 200 only after authentication and store
\* resolution succeeded.
StatusPerCase ==
    /\ http # NullObject =>
          LET q == http.request IN
          /\ q.user = Null => http.status = 401
          /\ (q.user # Null /\ q.storeId # Null /\ WithId(q.storeId) = {})
                => http.status = 404
          /\ (q.user # Null /\ q.storeId # Null /\ WithId(q.storeId) # {})
                => (http.status = 403 /\ ~Owns(q.user, q.storeId))
          /\ (q.user # Null /\ q.storeId = Null)
                => (http.status = 404 /\ OwnedBy(q.user) = {})
    /\ \A r \in RunSlots :
          Dispatched(runs[r]) =>
             /\ runs[r].request.user # Null
             /\ Owns(runs[r].request.user, runs[r].store)
             /\ ~runs[r].request.wait => runs[r].reply.status = 202
             /\ (runs[r].request.wait /\ runs[r].reply # NullObject)
                   => (runs[r].reply.status # 202 /\ runs[r].st # "running")
             /\ (runs[r].request.wait /\ runs[r].st = "completed")
                   => runs[r].reply.status = 200

\* C17: a run that was awaited (wait=true) and in which a fetch or a store
\* call failed is answered with the failure and its cause text, not with
\* 200 'Sync completed'.
AwaitedFailureReported ==
    \A r \in RunSlots :
       (/\ Dispatched(runs[r]) /\ runs[r].request.wait
        /\ runs[r].st # "running" /\ runs[r].failure # NullObject) =>
           /\ runs[r].reply # NullObject
           /\ runs[r].reply.status # 200
           /\ runs[r].reply.body = runs[r].failure.message

\* C18: a request without wait=true is answered 202 'Sync started' at the
\* dispatch, and that answer stands while the run goes on and whether it
\* later completes or fails.
AsyncAnswerStands ==
    \A r \in RunSlots :
       (Dispatched(runs[r]) /\ ~runs[r].request.wait) =>
           runs[r].reply = [status |-> 202, body |-> "Sync started"]

\* A run dispatched without wait=true has failed after its answer was given.
AsyncAnswerStandsWitness ==
    \E r \in RunSlots :
       /\ Dispatched(runs[r]) /\ ~runs[r].request.wait
       /\ runs[r].variant = "paginated"
       /\ runs[r].st = "failed" /\ runs[r].failure # NullObject
       /\ runs[r].reply.status = 202

----------------------------------------------------------------------------
(* One paginated run against an upstream of two customer pages. *)

\* The upstream of the scenario: customers 1..5 on two pages (3 then 2), and
\* one page of four orders, three of known customers and one of a customer
\* the upstream does not list.
ScenarioCustomerPages ==
    <<[i \in 1..3 |-> ShopifyCustomer(i, 1)],
      [i \in 1..2 |-> ShopifyCustomer(3 + i, 1)]>>

ScenarioOrderCustomers == <<1, 3, 5, 9>>

ScenarioOrderPages ==
    <<[i \in 1..4 |->
          [ShopifyOrder(i, 1) EXCEPT !.customer = [id |-> ScenarioOrderCustomers[i]]]]>>

ScenarioKeys(pages) ==
    {[shopifyId |-> ToString(x.id), storeId |-> s] : x \in Range(Flatten(pages)), s \in Stores}

\* customers = await fetchAllFromShopify(customersApiUrl, ...), then the
\* first chunk of batchUpsert.
ScenarioFetchCustomers(r) ==
    LET run == runs[r]
        f == FetchAllFromShopify(Server(ScenarioCustomerPages, 0), PageUrl(1))
    IN
    /\ run.variant = "paginated" /\ run.pc = "fetchCustomers"
    /\ SetRun(r, IF f.pc = "thrown" THEN Failed(Note(run, FALSE, FetchError(run.variant)))
                 ELSE IF f.results = <<>> THEN [run EXCEPT !.pc = "fetchOrders"]
                 ELSE [run EXCEPT
                          !.pc = "customers",
                          !.cBatch = BatchBegin(f.results, params.batchSize, params.concurrency)])
    /\ NoWrite
    /\ UNCHANGED <<starts, faults, others>>

ScenarioFetchOrders(r) ==
    LET run == runs[r]
        f == FetchAllFromShopify(Server(ScenarioOrderPages, 0), PageUrl(1))
    IN
    /\ run.variant = "paginated" /\ run.pc = "fetchOrders"
    /\ SetRun(r, IF f.pc = "thrown" THEN Failed(Note(run, FALSE, FetchError(run.variant)))
                 ELSE IF f.results = <<>> THEN Completed(run)
                 ELSE [run EXCEPT
                          !.pc = "orders",
                          !.oBatch = BatchBegin(OrderTasks(f.results),
                                                params.batchSize, params.concurrency)])
    /\ NoWrite
    /\ UNCHANGED <<starts, faults, others>>

\* No row is stored, every external call succeeds, and batchUpsert runs
\* with its default parameters or with scaled ones.
InitScenario ==
    /\ customers = {}
    /\ orders = {}
    /\ runs = [r \in RunSlots |-> IdleRun]
    /\ faults = MaxFaults
    /\ appliedC = [k \in ScenarioKeys(ScenarioCustomerPages) |->
                      [applied |-> FALSE, data |-> NullObject]]
    /\ appliedO = [k \in ScenarioKeys(ScenarioOrderPages) |->
                      [applied |-> FALSE, orderData |-> NullObject,
                       linked |-> Null, same |-> TRUE]]
    /\ deployed = "paginated"
    /\ starts = MaxStarts - 1
    /\ params \in [customerIds : {1..5}, orderIds : {1..4},
                    batchSize : ScaledBatch \cup {BatchSize},
                    concurrency : ScaledBatch \cup {Concurrency},
                    stores : {StoreTable}, requests : {OwnerRequests}]
    /\ http = NullObject
    /\ fetcher = NullObject
    /\ retry = NullObject

NextScenario ==
    \/ \E r \in RunSlots, req \in Requests : Post(r, req)
    \/ \E r \in RunSlots : ScenarioFetchCustomers(r)
    \/ \E r \in RunSlots : PagUpsertCustomer(r)
    \/ \E r \in RunSlots : ScenarioFetchOrders(r)
    \/ \E r \in RunSlots : PagFindCustomer(r)
    \/ \E r \in RunSlots : PagUpsertOrder(r)

SpecScenario == InitScenario /\ [][NextScenario]_vars

\* The Customer row of store s with external identifier c, as a set.
CustomerRow(s, c) == RowsOf(customers, [storeId |-> s, shopifyId |-> ToString(c)])

\* C21: the run over the scenario's upstream, started on a store without
\* rows, ends in success; the store then holds exactly 5 Customers and 4
\* Orders, 3 of the Orders refer to the Customer their record names and 1
\* refers to none; no other store holds a row.
EndToEnd ==
    \A r \in RunSlots :
       (Dispatched(runs[r]) /\ runs[r].st # "running") =>
          LET s == runs[r].store
              mine == RowsOf(orders, [storeId |-> s])
          IN /\ runs[r].st = "completed"
             /\ Cardinality(RowsOf(customers, [storeId |-> s])) = 5
             /\ Cardinality(mine) = 4
             /\ Cardinality({o \in mine : o.customerId # Null}) = 3
             /\ Cardinality({o \in mine : o.customerId = Null}) = 1
             /\ \A i \in 1..4 :
                   \E o \in mine :
                      /\ o.shopifyId = ToString(i)
                      /\ \/ o.customerId = Null /\ CustomerRow(s, ScenarioOrderCustomers[i]) = {}
                         \/ \E c \in CustomerRow(s, ScenarioOrderCustomers[i]) : o.customerId = c.id
             /\ customers = RowsOf(customers, [storeId |-> s])
             /\ orders = mine

\* The run has completed with default batching, all rows stored.
EndToEndWitness ==
    \E r \in RunSlots :
       /\ runs[r].st = "completed"
       /\ params.batchSize = BatchSize /\ params.concurrency = Concurrency
       /\ Cardinality(customers) = 5 /\ Cardinality(orders) = 4

----------------------------------------------------------------------------
(* Runs over a store that an earlier sync has filled. *)

\* The rows a complete sync of store s leaves in empty tables when the
\* upstream lists customers cids and orders oids at revision v.
SeedCustomers(s, cids, v) ==
    CreateMany({}, CreateManyCustomerData(
                      [i \in 1..Len(Ascending(cids)) |->
                          ShopifyCustomer(Ascending(cids)[i], v)], s))

SeedOrderData(oids, v) ==
    [i \in 1..Len(Ascending(oids)) |-> ShopifyOrder(Ascending(oids)[i], v)]

SeedOrders(s, cids, oids, v) ==
    CreateMany({}, CreateManyOrderData(SeedOrderData(oids, v), s,
                                       CustomerIdMap(SeedCustomers(s, cids, v), s)))

\* The store the earlier sync filled, and the revision it saw.
SeededStore == "s1"
SeededVersion == 1

\* Store SeededStore holds the whole catalogue as first served; since then
\* the upstream has dropped every customer but the first, and it may have
\* revised its records. Runs of all stores interleave.
InitResync ==
    /\ customers = SeedCustomers(SeededStore, CustomerIds, SeededVersion)
    /\ orders = SeedOrders(SeededStore, CustomerIds, OrderIds, SeededVersion)
    /\ runs = [r \in RunSlots |-> IdleRun]
    /\ faults = 0
    /\ appliedC = NoteCustomers(
                     [k \in CustomerKeys |-> [applied |-> FALSE, data |-> NullObject]],
                     CreateManyCustomerData(
                        [i \in 1..MaxCustomers |-> ShopifyCustomer(i, SeededVersion)],
                        SeededStore))
    /\ appliedO = NoteOrders(
                     [k \in OrderKeys |->
                         [applied |-> FALSE, orderData |-> NullObject,
                          linked |-> Null, same |-> TRUE]],
                     SeedOrderData(OrderIds, SeededVersion), SeededStore,
                     SeedCustomers(SeededStore, CustomerIds, SeededVersion))
    /\ deployed \in Variants
    /\ starts = MaxStarts - 2
    /\ params = [customerIds |-> {1}, orderIds |-> OrderIds,
                 batchSize |-> BatchSize, concurrency |-> Concurrency,
                 stores |-> StoreTable, requests |-> OwnerRequests]
    /\ http = NullObject
    /\ fetcher = NullObject
    /\ retry = NullObject

SpecResync == InitResync /\ [][Next]_vars

----------------------------------------------------------------------------
(* Properties of the stored rows across runs. *)

KeysOf(rows) == {UniqueKey(row) : row \in rows}

\* C22: no step of any run removes a row: the stored Customer keys and
\* Order keys only grow, whatever the upstream still lists.
NoRowDeleted ==
    [][/\ KeysOf(customers) \subseteq KeysOf(customers')
       /\ KeysOf(orders) \subseteq KeysOf(orders')
       /\ Cardinality(customers) <= Cardinality(customers')
       /\ Cardinality(orders) <= Cardinality(orders')]_vars

\* Two runs of the seeded store have ended without a failure, a customer
\* the upstream no longer lists is still stored, and so are all orders.
NoRowDeletedWitness ==
    /\ \A r \in RunSlots :
          /\ runs[r].st = "completed" /\ runs[r].store = SeededStore
          /\ runs[r].failure = NullObject
    /\ \E c \in customers :
          /\ c.storeId = SeededStore
          /\ c.shopifyId \notin {ToString(i) : i \in params.customerIds}
    /\ Cardinality(RowsOf(orders, [storeId |-> SeededStore])) = MaxOrders

----------------------------------------------------------------------------
(* The read endpoints: insights and the store list. *)

\* A GET request: the signed-in user or null, and the storeId parameter or
\* null ("s9" names no store).
GetRequests == [user : Users \cup {Null}, storeId : Stores \cup {Null, "s9"}]

RECURSIVE SumPrices(_)
SumPrices(rows) ==
    IF rows = {} THEN 0
    ELSE LET row == CHOOSE x \in rows : TRUE
         IN row.totalPrice + SumPrices(rows \ {row})

\* aggregate _sum totalPrice, order.count and customer.count where storeId.
TotalsOf(storeId) ==
    [totalSpent |-> SumPrices(RowsOf(orders, [storeId |-> storeId])),
     totalOrders |-> Cardinality(RowsOf(orders, [storeId |-> storeId])),
     totalCustomers |-> Cardinality(RowsOf(customers, [storeId |-> storeId]))]

\* store.findMany({ select: { id, shop } }): the shop is named by the id.
StoreList == {[id |-> st.id, shop |-> st.id \o ".myshopify.com"] : st \in params.stores}

Respond(endpoint, req, status, about, body) ==
    /\ http' = [endpoint |-> endpoint, request |-> req, status |-> status,
                about |-> about, body |-> body]
    /\ NoWrite
    /\ UNCHANGED <<runs, starts, faults, deployed, params, fetcher, retry>>

\* GET /api/insights/totals: the storeId parameter, or the first store of
\* the table; no session is read.
GetTotals(req) ==
    IF req.storeId # Null
    THEN Respond("totals", req, 200, {req.storeId}, TotalsOf(req.storeId))
    ELSE IF params.stores = {}
    THEN Respond("totals", req, 404, {}, [availableStores |-> StoreList])
    ELSE \E st \in params.stores :
            Respond("totals", req, 200, {st.id}, TotalsOf(st.id))

\* GET /api/insights/top-orders: the first store of the signed-in user.
GetTopOrders(req) ==
    IF req.user = Null
    THEN Respond("top-orders", req, 401, {}, [error |-> "Not authenticated"])
    ELSE IF OwnedBy(req.user) = {}
    THEN Respond("top-orders", req, 404, {}, [error |-> "No connected store found"])
    ELSE \E st \in OwnedBy(req.user) :
            Respond("top-orders", req, 200, {st.id},
                    [orders |-> {o.shopifyId : o \in RowsOf(orders, [storeId |-> st.id])}])

\* GET /api/stores: every store of the table; no session is read.
GetStores(req) ==
    Respond("stores", req, 200, {st.id : st \in StoreList}, [stores |-> StoreList])

SeededC(h, s, cids, v) ==
    NoteCustomers(h, CreateManyCustomerData(
                        [i \in 1..Len(Ascending(cids)) |->
                            ShopifyCustomer(Ascending(cids)[i], v)], s))

SeededO(h, s, cids, oids, v) ==
    NoteOrders(h, SeedOrderData(oids, v), s, SeedCustomers(s, cids, v))

\* Both stores were synced before: the first from the whole catalogue, the
\* second from some of it at some revision.
InitInsights ==
    /\ runs = [r \in RunSlots |-> IdleRun]
    /\ faults = 0
    /\ starts = 0
    /\ deployed \in Variants
    /\ params \in [customerIds : {CustomerIds}, orderIds : {OrderIds},
                    batchSize : {BatchSize}, concurrency : {Concurrency},
                    stores : {StoreTable, {}}, requests : {OwnerRequests}]
    /\ \E cids \in SUBSET CustomerIds, v \in Versions :
          /\ customers = SeedCustomers("s1", CustomerIds, 1)
                         \cup SeedCustomers("s2", cids, v)
          /\ orders = SeedOrders("s1", CustomerIds, OrderIds, 1)
                      \cup SeedOrders("s2", cids, OrderIds, v)
          /\ appliedC = SeededC(SeededC(
                           [k \in CustomerKeys |-> [applied |-> FALSE, data |-> NullObject]],
                           "s1", CustomerIds, 1), "s2", cids, v)
          /\ appliedO = SeededO(SeededO(
                           [k \in OrderKeys |->
                               [applied |-> FALSE, orderData |-> NullObject,
                                linked |-> Null, same |-> TRUE]],
                           "s1", CustomerIds, OrderIds, 1), "s2", cids, OrderIds, v)
    /\ http = NullObject
    /\ fetcher = NullObject
    /\ retry = NullObject

NextInsights ==
    \/ \E req \in GetRequests : GetTotals(req)
    \/ \E req \in GetRequests : GetTopOrders(req)
    \/ \E req \in GetRequests : GetStores(req)

SpecInsights == InitInsights /\ [][NextInsights]_vars

\* C23: a read request is answered with data of a store only if it carries
\* a signed-in user and that user owns the store.
ReadsIsolated ==
    (http # NullObject /\ http.status = 200) =>
       \A st \in params.stores :
          st.id \in http.about =>
             (http.request.user # Null /\ st.userId = http.request.user)

----------------------------------------------------------------------------
(* Two runs whose every external call returns. *)

\* A step of the run in slot r: one of its external calls returns.
RunStep(r) ==
    \/ RouteFetchCustomers(r) \/ RouteUpsertCustomer(r) \/ RouteFetchOrders(r)
    \/ RouteFindCustomer(r) \/ RouteUpsertOrder(r)
    \/ CmFetch(r) \/ CmCreateCustomers(r) \/ CmFindCustomers(r) \/ CmCreateOrders(r)
    \/ PagFetchCustomers(r) \/ PagUpsertCustomer(r) \/ PagFetchOrders(r)
    \/ PagFindCustomer(r) \/ PagUpsertOrder(r)

\* As Init, with room for exactly two requests.
InitLive ==
    /\ InitSync
    /\ deployed \in Variants
    /\ starts = MaxStarts - 2
    /\ params = [customerIds |-> {1}, orderIds |-> {1, 2},
                 batchSize |-> BatchSize, concurrency |-> Concurrency,
                 stores |-> StoreTable, requests |-> OwnerRequests]
    /\ http = NullObject
    /\ fetcher = NullObject
    /\ retry = NullObject

\* No external call of a run stays pending forever.
SpecLive == InitLive /\ [][Next]_vars /\ \A r \in RunSlots : WF_vars(RunStep(r))

Terminal == {"completed", "failed"}

\* The moves of a run slot: a run begins in a slot that holds none in
\* progress, and a run in progress ends once, completed or failed.
Lifecycle(r) ==
    \/ runs'[r].st = runs[r].st
    \/ runs[r].st \in {"idle"} \cup Terminal /\ runs'[r].st = "running"
    \/ runs[r].st = "running" /\ runs'[r].st \in Terminal

\* A request of a store's owner is dispatched whatever the runs in progress.
AlwaysDispatched ==
    \A req \in params.requests :
       starts < MaxStarts => ENABLED (\E r \in RunSlots : Post(r, req))

\* C24: a dispatched run goes from idle to running and from there to
\* exactly one of completed and failed, which it reaches when every
\* external call returns; a request for a store is dispatched also while a
\* run for that store is in progress.
RunLifecycle ==
    /\ [][\A r \in RunSlots : Lifecycle(r)]_vars
    /\ \A r \in RunSlots : (runs[r].st = "running") ~> (runs[r].st \in Terminal)
    /\ []AlwaysDispatched

\* Two runs of the same store are in progress at the same time.
RunLifecycleWitness ==
    /\ runs[1].st = "running" /\ runs[2].st = "running"
    /\ runs[1].store = runs[2].store

----------------------------------------------------------------------------
(* Two runs against an upstream whose data does not change. *)

InitConverge ==
    /\ InitSync
    /\ deployed \in Variants
    /\ starts = MaxStarts - 2
    /\ params \in [customerIds : {{1}}, orderIds : {{1, 2}},
                    batchSize : {BatchSize}, concurrency : {Concurrency},
                    stores : {StoreTable}, requests : {OwnerRequests},
                    upstream : [listed : SUBSET {1}, ver : Versions]]
    /\ http = NullObject
    /\ fetcher = NullObject
    /\ retry = NullObject

SpecConverge == InitConverge /\ [][Next]_vars

\* The slots that hold a run of store s, and the one dispatched last.
RunsOf(s) == {r \in RunSlots : runs[r].store = s}

LastRunOf(s) == CHOOSE r \in RunsOf(s) : \A q \in RunsOf(s) : q <= r

Succeeded(run) == run.st = "completed" /\ run.failure = NullObject

\* Store s holds what one successful run over the fixed upstream leaves.
AsSingleRun(s) ==
    /\ RowsOf(customers, [storeId |-> s])
          = SeedCustomers(s, params.upstream.listed, params.upstream.ver)
    /\ RowsOf(orders, [storeId |-> s])
          = SeedOrders(s, params.upstream.listed, params.orderIds, params.upstream.ver)

\* The variants that end a run at its first failed call.
FailFast == {"paginated", "createMany"}

----------------------------------------------------------------------------
(* The scope of batchUpsert's fail-fast. *)

\* The run has reported its failure: syncHistoricalData has thrown.
Reported(run) == run.st = "failed"

\* The items an upsertFn invocation, or a set of them, stands for.
ItemOf(task) == IF "orderData" \in DOMAIN task THEN task.orderData ELSE task

ItemsOf(tasks) == {ItemOf(t) : t \in tasks}

\* C26: when one upsertFn invocation of a chunk fails, batchUpsert rejects
\* and with it the run; from then on no item of a later chunk is started,
\* while every item of the failing chunk that had not started stays with
\* the limiter until the limiter invokes it.
FailFastScope ==
    [][\A r \in RunSlots, field \in BatchFields :
          LET b == runs[r][field]
              n == runs'[r][field]
          IN (/\ runs[r].variant = "paginated"
              /\ runs[r].pc \in {"customers", "orders", "done"}
              /\ Reported(runs'[r])) =>
                /\ ItemsOf(n.inflight)
                      \subseteq ItemsOf(b.inflight) \cup ItemsOf(Range(b.queue))
                /\ Range(n.queue) \subseteq Range(b.queue)
                /\ Range(b.queue) \subseteq Range(n.queue) \cup n.inflight
                /\ ItemsOf(Range(b.rest)) \cap ItemsOf(PendingOf(n)) = {}]_vars

\* A store write of a run that had already reported failure: the first
\* item of a chunk of two failed, the second was written afterwards, and
\* the next chunk never started.
FailFastScopeWitness ==
    \E r \in RunSlots :
       LET stored == {row.shopifyId : row \in RowsOf(customers, [storeId |-> runs[r].store])}
       IN /\ runs[r].variant = "paginated"
          /\ Reported(runs[r])
          /\ runs[r].failure.kind = "store"
          /\ runs[r].reply = [status |-> 500, body |-> StoreError.message]
          /\ params.batchSize = 2 /\ params.concurrency = 1
          /\ PendingOf(runs[r].cBatch) = {}
          /\ stored = {"2"}

----------------------------------------------------------------------------
(* The frame of the Order update path. *)

\* The fields of an Order row the update payload names, and the others.
OrderUpdateFields == {"financialStatus", "fulfillmentStatus", "totalPrice"}

OrderFrameFields ==
    {"id", "shopifyId", "orderNumber", "currency", "processedAt", "storeId",
     "customerId"}

\* C27: when a sync upserts an Order whose (external identifier, store) row
\* exists, the step writes financialStatus, fulfillmentStatus and
\* totalPrice of that row from the raw record and nothing else: orderNumber,
\* currency, processedAt, the store and the customer reference of every
\* stored row stay as they were.
OrderUpdateFrame ==
    [][\A row \in orders :
          \E after \in orders' :
             /\ Agree(after, row, OrderFrameFields)
             /\ after # row =>
                   \E v \in Versions :
                      Agree(after,
                            OrderUpdate(ShopifyOrder(CHOOSE o \in OrderIds :
                                                        ToString(o) = row.shopifyId, v)),
                            OrderUpdateFields)]_vars

\* An Order row the earlier sync created was updated from the revised
\* record: its status and price are the revised ones, its number, currency
\* and date those of the first revision, its customer still linked.
OrderUpdateFrameWitness ==
    \E row \in RowsOf(orders, [storeId |-> SeededStore, shopifyId |-> "1"]) :
       /\ deployed # "createMany"
       /\ Agree(row, OrderUpdate(ShopifyOrder(1, 2)), OrderUpdateFields)
       /\ Agree(row, OrderCreate(ShopifyOrder(1, SeededVersion), SeededStore, NullObject),
                {"orderNumber", "currency", "processedAt"})
       /\ row.financialStatus # ShopifyOrder(1, SeededVersion).financial_status
       /\ row.customerId
             = FindUnique(customers, [storeId |-> SeededStore, shopifyId |-> "1"]).id

----------------------------------------------------------------------------
(* The tenant frame of a sync run. *)

\* The Customer and Order rows of store s in the given tables.
TenantRows(cs, os, s) ==
    <<RowsOf(cs, [storeId |-> s]), RowsOf(os, [storeId |-> s])>>

\* C28: a step of a sync run for store T creates or modifies only rows
\* whose storeId is T: the Customer and Order rows of every other store are
\* the same after the step, also when that store holds rows with the same
\* external identifiers.
TenantFrame ==
    [][/\ \A row \in customers' \cup orders' : row.storeId \in Stores
       /\ \A s \in Stores :
             TenantRows(customers', orders', s) # TenantRows(customers, orders, s) =>
                \E r \in RunSlots :
                   /\ runs[r].store = s
                   /\ runs'[r] # runs[r]
                   /\ \A q \in RunSlots \ {r} : runs'[q] = runs[q]
                   /\ \A t \in Stores \ {s} :
                         TenantRows(customers', orders', t)
                            = TenantRows(customers, orders, t)]_vars

\* A run of the other store has written the revised records under the
\* external identifiers the seeded store holds, and the seeded store's rows
\* are those the earlier sync left.
TenantFrameWitness ==
    \E r \in RunSlots, t \in Stores \ {SeededStore} :
       /\ runs[r].store = t /\ runs[r].st = "completed"
       /\ \E c \in RowsOf(customers, [storeId |-> t, shopifyId |-> "1"]) :
             c.email = ShopifyCustomer(1, 2).email
       /\ \E o \in RowsOf(orders, [storeId |-> t, shopifyId |-> "1"]) :
             o.financialStatus = ShopifyOrder(1, 2).financial_status
       /\ TenantRows(customers, orders, SeededStore)
             = <<SeedCustomers(SeededStore, CustomerIds, SeededVersion),
                 SeedOrders(SeededStore, CustomerIds, OrderIds, SeededVersion)>>

----------------------------------------------------------------------------
(* Several runs against the shared store. *)

\* Two runs may overlap over a catalogue of two customers and two orders,
\* batchUpsert's parameters scaled down to the catalogue's size.
InitOverlap ==
    /\ InitSync
    /\ deployed \in Variants
    /\ starts = MaxStarts - 2
    /\ params \in [customerIds : {{1, 2}}, orderIds : {{1, 2}},
                    batchSize : {2}, concurrency : ScaledBatch,
                    stores : {StoreTable}, requests : {OwnerRequests},
                    upstream : [listed : {{1, 2}}, ver : {1}]]
    /\ http = NullObject
    /\ fetcher = NullObject
    /\ retry = NullObject

SpecOverlap == InitOverlap /\ [][Next]_vars

\* The upsertFn invocations of run r that have started and not settled.
OutstandingOf(r) ==
    IF runs[r].variant = "paginated"
    THEN Cardinality(Outstanding(runs[r].cBatch)) + Cardinality(Outstanding(runs[r].oBatch))
    ELSE 0

RECURSIVE SumOver(_, _)
SumOver(S, f) ==
    IF S = {} THEN 0
    ELSE LET x == CHOOSE y \in S : TRUE IN f[x] + SumOver(S \ {x}, f)

\* All outstanding upsertFn invocations against the shared store.
TotalOutstanding == SumOver(RunSlots, [r \in RunSlots |-> OutstandingOf(r)])

\* The runs in progress: dispatched, and neither returned nor thrown.
InProgress == {r \in RunSlots : runs[r].st = "running"}

\* The runs whose limiter holds invocations: those in progress, and those
\* that have thrown while invocations of their chunk were outstanding.
HoldingLimiter == {r \in RunSlots : runs[r].st = "running" \/ OutstandingOf(r) > 0}

\* C29 as stated: with n runs in progress the outstanding upsertFn
\* invocations number at most n*c.
BoundByRunsInProgress ==
    TotalOutstanding <= Cardinality(InProgress) * params.concurrency

\* C29: each batchUpsert call has its own limiter, so the outstanding
\* upsertFn invocations against the shared store number at most m*c, where
\* m counts the runs in progress and the runs that have thrown with
\* invocations of their failing chunk still outstanding.
BoundByLimiters ==
    TotalOutstanding <= Cardinality(HoldingLimiter) * params.concurrency

\* Two runs in progress have more than c invocations outstanding between
\* them.
BoundByLimitersWitness ==
    /\ InProgress = RunSlots
    /\ \A r \in RunSlots : runs[r].variant = "paginated"
    /\ TotalOutstanding > params.concurrency
    /\ TotalOutstanding = Cardinality(InProgress) * params.concurrency

----------------------------------------------------------------------------
(* The createMany variant is insert-only. *)

\* The positions of a createMany run behind its Promise.all of the fetches.
PastFetch == {"createCustomers", "findMany", "createOrders"}

\* Run r of the createMany variant takes this step.
CmSteps(r) ==
    /\ runs[r].variant = "createMany"
    /\ runs'[r] # runs[r]

\* C30: a run of the createMany variant writes to the store only behind
\* its Promise.all of the two fetches, which it passes only when neither
\* fetch failed; a write leaves every stored row as it is and inserts rows
\* of the run's store under keys not stored before, so that a run over
\* stored keys changes nothing.
InsertOnly ==
    [][\A r \in RunSlots :
          CmSteps(r) =>
             /\ runs[r].pc = "fetch" =>
                   /\ customers' = customers /\ orders' = orders
                   /\ runs'[r].pc \in PastFetch => faults' = faults
                   /\ faults' # faults =>
                         /\ runs'[r].st = "failed"
                         /\ runs'[r].failure.kind = "fetch"
                         /\ PendingOf(runs'[r].cBatch) \cup PendingOf(runs'[r].oBatch) = {}
             /\ (customers' # customers \/ orders' # orders) =>
                   /\ runs[r].pc \in PastFetch
                   /\ runs[r].failure = NullObject
             /\ customers \subseteq customers'
             /\ orders \subseteq orders'
             /\ \A row \in (customers' \ customers) :
                   /\ row.storeId = runs[r].store
                   /\ UniqueKey(row) \notin KeysOf(customers)
             /\ \A row \in (orders' \ orders) :
                   /\ row.storeId = runs[r].store
                   /\ UniqueKey(row) \notin KeysOf(orders)]_vars

\* A createMany run over the seeded store has completed against revised
\* upstream records, and the store holds the rows of the earlier sync.
InsertOnlyWitness ==
    \E r \in RunSlots :
       /\ runs[r].variant = "createMany"
       /\ runs[r].store = SeededStore
       /\ runs[r].st = "completed"
       /\ appliedC[[storeId |-> SeededStore, shopifyId |-> "1"]].data.email
             = ShopifyCustomer(1, 2).email
       /\ appliedO[[storeId |-> SeededStore, shopifyId |-> "1"]].orderData.total_price
             = ShopifyOrder(1, 2).total_price
       /\ customers = SeedCustomers(SeededStore, CustomerIds, SeededVersion)
       /\ orders = SeedOrders(SeededStore, CustomerIds, OrderIds, SeededVersion)

====
